---------------------------- MODULE Spec2Model ----------------------------
(***************************************************************************)
(* Model of webserver.cpp: the HTTPRequest parser, the HTTPResponse model  *)
(* and the WebServer accept loop with its lifecycle (start / stop /        *)
(* destruction).  Byte strings are sequences of one-character strings, so  *)
(* that parsing, serialisation and number conversion are computed the way  *)
(* the code computes them.                                                  *)
(***************************************************************************)
EXTENDS Integers, Sequences, FiniteSets, TLC

(***************************************************************************)
(* String literals of the source, spelled out as byte sequences.           *)
(***************************************************************************)
\* "<html><body><h1>Hello, World!</h1><p>Welcome to my C++ Web Server</p></body></html>"
HelloHtml ==
    <<"<","h","t","m","l",">","<","b","o","d","y",">","<","h","1",">","H",
      "e","l","l","o",","," ","W","o","r","l","d","!","<","/","h","1",">",
      "<","p",">","W","e","l","c","o","m","e"," ","t","o"," ","m","y"," ",
      "C","+","+"," ","W","e","b"," ","S","e","r","v","e","r","<","/","p",
      ">","<","/","b","o","d","y",">","<","/","h","t","m","l",">">>

\* "{\"message\": \"This is JSON data\"}"
JsonData ==
    <<"{","\"","m","e","s","s","a","g","e","\"",":"," ","\"","T","h","i",
      "s"," ","i","s"," ","J","S","O","N"," ","d","a","t","a","\"","}">>

\* "<html><body><h1>404 Not Found</h1></body></html>"
NotFoundHtml ==
    <<"<","h","t","m","l",">","<","b","o","d","y",">","<","h","1",">","4",
      "0","4"," ","N","o","t"," ","F","o","u","n","d","<","/","h","1",">",
      "<","/","b","o","d","y",">","<","/","h","t","m","l",">">>

\* "Content-Length"
KeyContentLength ==
    <<"C","o","n","t","e","n","t","-","L","e","n","g","t","h">>

\* "Content-Type"
KeyContentType ==
    <<"C","o","n","t","e","n","t","-","T","y","p","e">>

\* "text/html"
TextHtml ==
    <<"t","e","x","t","/","h","t","m","l">>

\* "text/plain"
TextPlain ==
    <<"t","e","x","t","/","p","l","a","i","n">>

\* "text/css"
TextCss ==
    <<"t","e","x","t","/","c","s","s">>

\* "application/javascript"
ApplicationJavascript ==
    <<"a","p","p","l","i","c","a","t","i","o","n","/","j","a","v","a","s",
      "c","r","i","p","t">>

\* "application/json"
ApplicationJson ==
    <<"a","p","p","l","i","c","a","t","i","o","n","/","j","s","o","n">>

\* "image/png"
ImagePng ==
    <<"i","m","a","g","e","/","p","n","g">>

\* "image/jpeg"
ImageJpeg ==
    <<"i","m","a","g","e","/","j","p","e","g">>

\* "image/gif"
ImageGif ==
    <<"i","m","a","g","e","/","g","i","f">>

\* "HTTP/1.1"
Http11 ==
    <<"H","T","T","P","/","1",".","1">>

\* "OK"
StatusOK ==
    <<"O","K">>

\* "Not Found"
StatusNotFound ==
    <<"N","o","t"," ","F","o","u","n","d">>

\* "/"
PathRoot ==
    <<"/">>

\* "/api/data"
PathApiData ==
    <<"/","a","p","i","/","d","a","t","a">>

\* "/index.html"
PathIndexHtml ==
    <<"/","i","n","d","e","x",".","h","t","m","l">>

\* "public/index.html"
FilePathIndex ==
    <<"p","u","b","l","i","c","/","i","n","d","e","x",".","h","t","m","l">>

\* ".html"
ExtHtml ==
    <<".","h","t","m","l">>

\* ".htm"
ExtHtm ==
    <<".","h","t","m">>

\* ".css"
ExtCss ==
    <<".","c","s","s">>

\* ".js"
ExtJs ==
    <<".","j","s">>

\* ".json"
ExtJson ==
    <<".","j","s","o","n">>

\* ".png"
ExtPng ==
    <<".","p","n","g">>

\* ".jpg"
ExtJpg ==
    <<".","j","p","g">>

\* ".jpeg"
ExtJpeg ==
    <<".","j","p","e","g">>

\* ".gif"
ExtGif ==
    <<".","g","i","f">>

\* "\r\n"
CRLF ==
    <<"\r","\n">>

\* The byte '\0' that std::vector<char>(n) value-initialises its cells to.
NUL == "NUL"

(***************************************************************************)
(* Program constants.                                                       *)
(***************************************************************************)
INVALID_SOCKET == -1
SOCKET_ERROR == -1
buffer_size == 8192
INT_MAX == 2147483647

(***************************************************************************)
(* std::string / std::istringstream primitives used by HTTPRequest::parse. *)
(***************************************************************************)
\* isspace() in the "C" locale, as used by operator>> and by strtol.
IsSpace(c) == c \in {" ", "\t", "\n", "\r", "\f"}

IsDigit(c) == c \in {"0", "1", "2", "3", "4", "5", "6", "7", "8", "9"}

DigitVal(c) ==
    CASE c = "0" -> 0 [] c = "1" -> 1 [] c = "2" -> 2 [] c = "3" -> 3
      [] c = "4" -> 4 [] c = "5" -> 5 [] c = "6" -> 6 [] c = "7" -> 7
      [] c = "8" -> 8 [] c = "9" -> 9

DigitChar(d) == <<"0", "1", "2", "3", "4", "5", "6", "7", "8", "9">>[d + 1]

\* s.substr(from) with from counted from 0.
Substr(s, from) == SubSeq(s, from + 1, Len(s))

\* s.find(c): the 0-based index of the first c in s, or -1 (npos).
RECURSIVE FindFrom(_, _, _)
FindFrom(s, c, i) ==
    IF i > Len(s) THEN -1
    ELSE IF s[i] = c THEN i - 1
    ELSE FindFrom(s, c, i + 1)

Find(s, c) == FindFrom(s, c, 1)

\* A freshly constructed istringstream: nothing consumed, state good.
NewStream == [pos |-> 0, eof |-> FALSE, fail |-> FALSE]

Good(st) == ~st.eof /\ ~st.fail

\* std::getline(iss, line): [ok, line, st].  Extracts up to and including
\* the next '\n' (which is dropped); sets eofbit when the input ends first
\* and failbit when nothing at all was extracted.
GetLine(s, st) ==
    IF ~Good(st)
    THEN [ok |-> FALSE, line |-> <<>>, st |-> [st EXCEPT !.fail = TRUE]]
    ELSE LET rest == Substr(s, st.pos)
             nl   == Find(rest, "\n")
         IN  IF nl >= 0
             THEN [ok |-> TRUE, line |-> SubSeq(rest, 1, nl),
                   st |-> [st EXCEPT !.pos = st.pos + nl + 1]]
             ELSE [ok |-> rest # <<>>, line |-> rest,
                   st |-> [pos |-> Len(s), eof |-> TRUE, fail |-> rest = <<>>]]

\* Index (1-based) of the first non-whitespace byte of s at or after i.
RECURSIVE SkipSpace(_, _)
SkipSpace(s, i) ==
    IF i <= Len(s) /\ IsSpace(s[i]) THEN SkipSpace(s, i + 1) ELSE i

\* Index (1-based) of the first whitespace byte of s at or after i.
RECURSIVE SkipWord(_, _)
SkipWord(s, i) ==
    IF i <= Len(s) /\ ~IsSpace(s[i]) THEN SkipWord(s, i + 1) ELSE i

\* line_stream >> word, starting at index i: [word, next].  A failed
\* extraction leaves the (empty) target string empty.
Extract(s, i) ==
    LET b == SkipSpace(s, i)
        e == SkipWord(s, b)
    IN  [word |-> SubSeq(s, b, e - 1), next |-> e]

\* line_stream >> method >> path >> version
RequestLine(line) ==
    LET m == Extract(line, 1)
        p == Extract(line, m.next)
        v == Extract(line, p.next)
    IN  [method |-> m.word, path |-> p.word, version |-> v.word]

\* while (!value.empty() && (value[0] == ' ' || value[0] == '\t')) erase
RECURSIVE StripLeading(_)
StripLeading(value) ==
    IF value # <<>> /\ value[1] \in {" ", "\t"}
    THEN StripLeading(Tail(value))
    ELSE value

\* if (line.back() == '\r') line.pop_back();
StripCR(line) ==
    IF line # <<>> /\ line[Len(line)] = "\r"
    THEN SubSeq(line, 1, Len(line) - 1)
    ELSE line

\* An unordered_map<string,string> is a function from keys to values.
EmptyMap == <<>>

\* headers[key] = value
MapPut(map, key, value) == (key :> value) @@ map

\* One header line: split on the first ':'; a line without one is skipped.
HeaderLine(headers, raw) ==
    LET line == StripCR(raw)
        pos  == Find(line, ":")
    IN  IF pos >= 0
        THEN MapPut(headers, SubSeq(line, 1, pos),
                    StripLeading(Substr(line, pos + 1)))
        ELSE headers

\* while (std::getline(iss, line) && !line.empty() && line != "\r")
RECURSIVE HeaderBlock(_, _, _)
HeaderBlock(s, st, headers) ==
    LET g == GetLine(s, st)
    IN  IF g.ok /\ g.line # <<>> /\ g.line # <<"\r">>
        THEN HeaderBlock(s, g.st, HeaderLine(headers, g.line))
        ELSE [st |-> g.st, headers |-> headers]

\* Whether acc * 10 - d is still >= INT_MIN (acc <= 0 is the negated value
\* of the digits read so far, as strtol accumulates it).
Fits(acc, d) ==
    \/ acc > 0 - (INT_MAX \div 10)
    \/ acc = 0 - (INT_MAX \div 10) /\ d <= (INT_MAX % 10) + 1

\* The digit run of s starting at index i: [over, val], val the negated
\* value, over set once the value no longer fits.
RECURSIVE Digits(_, _, _)
Digits(s, i, acc) ==
    IF i <= Len(s) /\ IsDigit(s[i])
    THEN IF Fits(acc, DigitVal(s[i]))
         THEN Digits(s, i + 1, acc * 10 - DigitVal(s[i]))
         ELSE [over |-> TRUE, val |-> 0]
    ELSE [over |-> FALSE, val |-> acc]

\* std::stoi(str): skips leading whitespace, takes an optional sign and the
\* longest digit run; throws std::invalid_argument when there is no digit
\* and std::out_of_range when the value does not fit an int.
stoi(str) ==
    LET b    == SkipSpace(str, 1)
        neg  == b <= Len(str) /\ str[b] = "-"
        d    == IF b <= Len(str) /\ str[b] \in {"-", "+"} THEN b + 1 ELSE b
        some == d <= Len(str) /\ IsDigit(str[d])
        run  == Digits(str, d, 0)
    IN  IF ~some THEN [what |-> "std::invalid_argument", val |-> 0]
        ELSE IF run.over \/ (~neg /\ run.val < 0 - INT_MAX)
        THEN [what |-> "std::out_of_range", val |-> 0]
        ELSE [what |-> "", val |-> IF neg THEN run.val ELSE 0 - run.val]

\* The bytes an unformatted read can still extract: those not yet
\* consumed, none once the stream is no longer good.
Remaining(s, st) == IF Good(st) THEN Substr(s, st.pos) ELSE <<>>

\* Mutant: the read copies one byte fewer than asked for.
ReadBody_OneShort(s, st, n) ==
    LET rest == Remaining(s, st)
        want == IF n > 0 THEN n - 1 ELSE 0
        got  == IF Len(rest) < want THEN Len(rest) ELSE want
    IN  SubSeq(rest, 1, got) \o [i \in 1..(n - got) |-> NUL]

\* std::vector<char> body_buffer(n); iss.read(body_buffer.data(), n);
\* body = std::string(body_buffer.data(), n): the bytes read, followed by
\* the cells of the zero-filled buffer that the read did not reach.
ReadBody(s, st, n) ==
    LET rest == Remaining(s, st)
        got  == IF Len(rest) < n THEN Len(rest) ELSE n
    IN  SubSeq(rest, 1, got) \o [i \in 1..(n - got) |-> NUL]

\* HTTPRequest::parse on a default-constructed request.  what: the
\* exception that left parse ("" for none): the one std::stoi threw, or
\* std::length_error from std::vector<char>(n) when n < 0 converts to a
\* size above max_size().
parse(request_str) ==
    LET g    == GetLine(request_str, NewStream)
        rl   == IF g.ok THEN RequestLine(g.line)
                ELSE [method |-> <<>>, path |-> <<>>, version |-> <<>>]
        hb   == HeaderBlock(request_str, g.st, EmptyMap)
        has  == KeyContentLength \in DOMAIN hb.headers
        cl   == IF has THEN stoi(hb.headers[KeyContentLength])
                ELSE [what |-> "", val |-> 0]
        what == IF cl.what # "" THEN cl.what
                ELSE IF cl.val < 0 THEN "std::length_error"
                ELSE ""
    IN  [what |-> what,
         method |-> rl.method, path |-> rl.path, version |-> rl.version,
         headers |-> hb.headers,
         body |-> IF has /\ what = ""
                  THEN ReadBody(request_str, hb.st, cl.val)
                  ELSE <<>>]

(***************************************************************************)
(* HTTPResponse.                                                            *)
(***************************************************************************)
\* std::to_string of a non-negative number: its decimal digits.
RECURSIVE to_string(_)
to_string(n) ==
    IF n < 10 THEN <<DigitChar(n)>>
    ELSE to_string(n \div 10) \o <<DigitChar(n % 10)>>

\* Mutant: no member initialiser runs, the storage keeps what it held.
HTTPResponse_Uninit(slot) == slot

\* HTTPResponse::HTTPResponse(), constructing into the storage `slot`:
\* version, status_code and status_message from the initialiser list,
\* headers and body default-constructed (empty).
HTTPResponse(slot) ==
    [version |-> Http11, status_code |-> 200, status_message |-> StatusOK,
     headers |-> EmptyMap, body |-> <<>>]

\* Mutant: Content-Length is taken from the body held before the call.
setContent_StaleLength(res, content, content_type) ==
    [res EXCEPT
       !.body = content,
       !.headers = MapPut(MapPut(res.headers, KeyContentType, content_type),
                          KeyContentLength, to_string(Len(res.body)))]

\* The default argument of setContent's content_type.
DefaultContentType == TextHtml

\* HTTPResponse::setContent(content, content_type)
setContent(res, content, content_type) ==
    [res EXCEPT
       !.body = content,
       !.headers = MapPut(MapPut(res.headers, KeyContentType, content_type),
                          KeyContentLength, to_string(Len(content)))]

\* The orders in which an unordered_map may iterate its keys.
Orders(map) ==
    {o \in [1..Cardinality(DOMAIN map) -> DOMAIN map] :
        \A i, j \in DOMAIN o : i # j => o[i] # o[j]}

\* The header lines of map in iteration order o, from position i on.
RECURSIVE HeaderLines(_, _, _)
HeaderLines(map, o, i) ==
    IF i > Len(o) THEN <<>>
    ELSE o[i] \o <<":", " ">> \o map[o[i]] \o CRLF
         \o HeaderLines(map, o, i + 1)

\* HTTPResponse::toString(), the headers iterated in order o.
toString(res, o) ==
    res.version \o <<" ">> \o to_string(res.status_code) \o <<" ">>
    \o res.status_message \o CRLF
    \o HeaderLines(res.headers, o, 1)
    \o CRLF \o res.body

(***************************************************************************)
(* Handlers.  A route maps a path to a handler; a handler is described by  *)
(* its kind (and, for a static-file route, the captured file_path).        *)
(***************************************************************************)
\* "/stop"
PathStop ==
    <<"/","s","t","o","p">>

\* "/boom"
PathBoom ==
    <<"/","b","o","o","m">>

\* "bye"
StoppedText ==
    <<"b","y","e">>


\* hasExtension(str, ext) of addStaticFileRoute
hasExtension(str, ext) ==
    IF Len(str) < Len(ext) THEN FALSE
    ELSE SubSeq(str, Len(str) - Len(ext) + 1, Len(str)) = ext

\* The MIME type chosen by the suffix chain of addStaticFileRoute.
ContentTypeOf(file_path) ==
    IF hasExtension(file_path, ExtHtml) \/ hasExtension(file_path, ExtHtm)
    THEN TextHtml
    ELSE IF hasExtension(file_path, ExtCss) THEN TextCss
    ELSE IF hasExtension(file_path, ExtJs) THEN ApplicationJavascript
    ELSE IF hasExtension(file_path, ExtJson) THEN ApplicationJson
    ELSE IF hasExtension(file_path, ExtPng) THEN ImagePng
    ELSE IF hasExtension(file_path, ExtJpg) \/ hasExtension(file_path, ExtJpeg)
    THEN ImageJpeg
    ELSE IF hasExtension(file_path, ExtGif) THEN ImageGif
    ELSE TextPlain

\* The 404 response of both the router miss and the missing static file.
NotFound(res) ==
    setContent([res EXCEPT !.status_code = 404,
                           !.status_message = StatusNotFound],
               NotFoundHtml, DefaultContentType)

\* Mutant: the file is looked at once, when the route is registered (it
\* does not exist then), and the outcome is kept.
StaticFileHandler_Cached(file_path, fs, res) == NotFound(res)

\* The lambda built by addStaticFileRoute, run against the file system fs.
StaticFileHandler(file_path, fs, res) ==
    IF fs[file_path].is_open
    THEN setContent(res, fs[file_path].bytes, ContentTypeOf(file_path))
    ELSE NotFound(res)

HelloHandler == [kind |-> "hello", file_path |-> <<>>]
JsonHandler == [kind |-> "json", file_path |-> <<>>]
StaticHandler(file_path) == [kind |-> "static", file_path |-> file_path]
\* Handlers an embedding application may register: one that calls
\* server.stop() before answering, and one that throws.
StopHandler == [kind |-> "stop", file_path |-> <<>>]
ThrowHandler == [kind |-> "throw", file_path |-> <<>>]

\* Running handler h on (request, res): [what, stop, res].  what: the
\* exception the handler threw ("" for none); stop: the handler called
\* WebServer::stop() on the serving object.
RunHandler(h, fs, res) ==
    CASE h.kind = "hello" ->
           [what |-> "", stop |-> FALSE,
            res |-> setContent(res, HelloHtml, TextHtml)]
      [] h.kind = "json" ->
           [what |-> "", stop |-> FALSE,
            res |-> setContent(res, JsonData, ApplicationJson)]
      [] h.kind = "static" ->
           [what |-> "", stop |-> FALSE,
            res |-> StaticFileHandler(h.file_path, fs, res)]
      [] h.kind = "stop" ->
           [what |-> "", stop |-> TRUE,
            res |-> setContent(res, StoppedText, TextPlain)]
      [] h.kind = "throw" ->
           [what |-> "std::runtime_error", stop |-> FALSE, res |-> res]

(***************************************************************************)
(* The environment: what clients send, what the file system holds, and     *)
(* the process's descriptor table.                                          *)
(***************************************************************************)
\* "/nope"
PathNope ==
    <<"/","n","o","p","e">>

\* "GET"
Get ==
    <<"G","E","T">>

\* "POST"
Post ==
    <<"P","O","S","T">>

\* "Content-Length: 5\r\n"
HdrLen5 ==
    <<"C","o","n","t","e","n","t","-","L","e","n","g","t","h",":"," ","5",
      "\r","\n">>

\* "Content-Length: abc\r\n"
HdrLenAbc ==
    <<"C","o","n","t","e","n","t","-","L","e","n","g","t","h",":"," ","a",
      "b","c","\r","\n">>

\* "Content-Length: -1\r\n"
HdrLenNeg ==
    <<"C","o","n","t","e","n","t","-","L","e","n","g","t","h",":"," ","-",
      "1","\r","\n">>

\* "content-length: 5\r\n"
HdrLowercase ==
    <<"c","o","n","t","e","n","t","-","l","e","n","g","t","h",":"," ","5",
      "\r","\n">>

\* "Host\r\n"
HdrNoColon ==
    <<"H","o","s","t","\r","\n">>

\* "he"
BodyShort ==
    <<"h","e">>

\* "hello, world"
BodyLong ==
    <<"h","e","l","l","o",","," ","w","o","r","l","d">>

\* "<p>v1</p>"
FileV1 ==
    <<"<","p",">","v","1","<","/","p",">">>

\* "<h1>v2</h1>"
FileV2 ==
    <<"<","h","1",">","v","2","<","/","h","1",">">>


\* Highest descriptor of the process's table (RLIMIT_NOFILE - 1).
MaxFd == 5

Fds == 0..MaxFd

\* Descriptors 0, 1, 2 are the standard streams, open from process start.
Stdio == {0, 1, 2}

\* Request lines: METHOD SP PATH SP VERSION CRLF, and one with one token.
RequestLines ==
    {m \o <<" ">> \o p \o <<" ">> \o Http11 \o CRLF :
        m \in {Get},
        p \in {PathRoot, PathApiData, PathIndexHtml, PathStop, PathBoom,
               PathNope, PathApiData \o <<"/">>,
               PathStop \o <<"?", "x", "=", "1">>}}
    \cup {Get \o <<"\n">>}

HeaderBlocks ==
    {<<>>, HdrLen5, HdrLenAbc, HdrLenNeg, HdrLowercase, HdrNoColon \o HdrLen5}

Bodies == {<<>>, BodyShort, BodyLong}

\* A request for "/" followed by filler, n bytes in all.
LongRequest(n) ==
    LET head == Get \o <<" ">> \o PathRoot \o <<" ">> \o Http11 \o CRLF \o CRLF
    IN  head \o [i \in 1..(n - Len(head)) |-> "x"]

\* What a client may have sent by the time the server reads: nothing, a
\* complete request, a request cut off inside its header block, or a
\* request just below, at and above the size of the read buffer.
Payloads ==
    {l \o h \o CRLF \o b :
        l \in RequestLines, h \in HeaderBlocks, b \in Bodies}
    \cup {<<>>, Post, Post \o <<" ">> \o PathRoot \o <<" ">> \o Http11 \o CRLF
                      \o SubSeq(HdrLen5, 1, Len(HdrLen5) - 2)}
    \cup {LongRequest(n) :
             n \in {buffer_size - 1, buffer_size, buffer_size + 1}}

\* A file: whether it can be opened, and its bytes.
NoFile == [is_open |-> FALSE, bytes |-> <<>>]
FileStates == {NoFile, [is_open |-> TRUE, bytes |-> FileV1],
               [is_open |-> TRUE, bytes |-> FileV2]}

\* socket() / accept() hand out the lowest free descriptor.
HasFree(t) == \E f \in Fds : t[f] = "free"
LowestFree(t) ==
    CHOOSE f \in Fds : t[f] = "free" /\ \A g \in Fds : g < f => t[g] # "free"

\* closesocket(fd): closes whatever descriptor fd names (EBADF otherwise).
closesocket(t, fd) ==
    IF fd \in Fds /\ t[fd] # "free" THEN [t EXCEPT ![fd] = "free"] ELSE t

(***************************************************************************)
(* WebServer.                                                               *)
(***************************************************************************)
VARIABLES
    pc,             \* where the single thread of control is
    server_socket,  \* WebServer::server_socket
    running,        \* WebServer::running
    routes,         \* WebServer::routes
    fds,            \* the process's descriptor table
    files,          \* the file system, by file path
    client_socket,  \* locals of one iteration of the accept loop ...
    avail,          \*   bytes the peer has sent on client_socket
    request_str,
    request,
    response,
    response_str,
    wire,           \* bytes the peer has been sent on client_socket
    exit_status,    \* what main() returned, once it has
    log             \* events since the last accept / call of start()

vars == <<pc, server_socket, running, routes, fds, files, client_socket,
          avail, request_str, request, response, response_str, wire,
          exit_status, log>>

server == <<server_socket, running, routes>>
locals == <<client_socket, avail, request_str, request, response,
            response_str, wire>>

\* A request / response object that is not in scope.
NoRequest == [what |-> "", method |-> <<>>, path |-> <<>>,
              version |-> <<>>, headers |-> EmptyMap, body |-> <<>>]
NoResponse == [version |-> <<>>, status_code |-> 0, status_message |-> <<>>,
               headers |-> EmptyMap, body |-> <<>>]

\* The locals of an iteration leave scope (no destructor closes a SOCKET).
Unwind ==
    /\ client_socket' = INVALID_SOCKET
    /\ avail' = <<>>
    /\ request_str' = <<>>
    /\ request' = NoRequest
    /\ response' = NoResponse
    /\ response_str' = <<>>
    /\ wire' = <<>>

\* exit_status while main() has not returned.
NotExited == "running"

\* main(): the routes registered before server.start().
MainRoutes ==
    MapPut(MapPut(MapPut(EmptyMap, PathRoot, HelloHandler),
                  PathApiData, JsonHandler),
           PathIndexHtml, StaticHandler(FilePathIndex))

\* WebServer(int port): running(false); server_socket is left
\* uninitialised, so it holds an arbitrary value.
Init ==
    /\ pc = "idle"
    /\ server_socket \in {INVALID_SOCKET} \cup Fds
    /\ running = FALSE
    /\ routes = MainRoutes
    /\ fds = [f \in Fds |-> IF f \in Stdio THEN "stdio" ELSE "free"]
    /\ files = (FilePathIndex :> NoFile)
    /\ client_socket = INVALID_SOCKET
    /\ avail = <<>>
    /\ request_str = <<>>
    /\ request = NoRequest
    /\ response = NoResponse
    /\ response_str = <<>>
    /\ wire = <<>>
    /\ exit_status = NotExited
    /\ log = <<>>

\* addRoute(path, handler), called by the embedding application while no
\* start() is in progress.
addRoute(path, handler) ==
    /\ pc = "idle"
    /\ routes' = MapPut(routes, path, handler)
    /\ UNCHANGED <<exit_status, pc, server_socket, running, fds, files, locals, log>>

\* The file behind a static route is created, rewritten or deleted.
WriteFile(file_path, f) ==
    /\ pc \in {"idle", "loop"}
    /\ files[file_path] # f
    /\ files' = [files EXCEPT ![file_path] = f]
    /\ UNCHANGED <<exit_status, pc, server, fds, locals, log>>

\* Mutant: stop() closes the socket but leaves the running flag set.
stop_KeepsRunning(t, sock) ==
    [running |-> TRUE,
     server_socket |-> INVALID_SOCKET,
     fds |-> IF sock # INVALID_SOCKET THEN closesocket(t, sock) ELSE t]

\* WebServer::stop() on (running, server_socket, fds).
stop(t, sock) ==
    [running |-> FALSE,
     server_socket |-> INVALID_SOCKET,
     fds |-> IF sock # INVALID_SOCKET THEN closesocket(t, sock) ELSE t]

\* initializeSocket() failing at `step`, or succeeding (step = "ok"):
\* [ok, server_socket, fds].  socket() fails at least when the table is full.
SetupSteps == {"socket", "setsockopt", "bind", "listen", "ok"}
initializeSocket(t, step) ==
    IF step = "socket"
    THEN [ok |-> FALSE, server_socket |-> INVALID_SOCKET, fds |-> t]
    ELSE [ok |-> step = "ok", server_socket |-> LowestFree(t),
          fds |-> [t EXCEPT ![LowestFree(t)] = "listen"]]

\* start() up to the accept loop: initializeSocket(); running = true;
\* an exception from initializeSocket is caught behind the loop.
StartSetup(step) ==
    /\ pc = "idle"
    /\ step = "socket" \/ HasFree(fds)
    /\ LET r == initializeSocket(fds, step)
       IN  /\ server_socket' = r.server_socket
           /\ fds' = r.fds
           /\ running' = IF r.ok THEN TRUE ELSE running
           /\ pc' = IF r.ok THEN "loop" ELSE "epilogue"
           /\ log' = IF r.ok THEN <<"start">>
                     ELSE <<"start", "std::runtime_error">>
    /\ UNCHANGED <<exit_status, routes, files, locals>>

\* Mutant: a failed accept() leaves the loop instead of continuing.
AcceptFailed_Fatal ==
    /\ pc = "loop" /\ running
    /\ pc' = "epilogue"
    /\ log' = <<"accept_failed">>
    /\ UNCHANGED <<exit_status, server, fds, files, locals>>

\* accept() returns INVALID_SOCKET: logged, continue.
AcceptFailed ==
    /\ pc = "loop" /\ running
    /\ log' = <<"accept_failed">>
    /\ UNCHANGED <<exit_status, pc, server, fds, files, locals>>

\* accept() returns a connection on which the peer has sent `sent`.
Accept(sent) ==
    /\ pc = "loop" /\ running
    /\ HasFree(fds)
    /\ client_socket' = LowestFree(fds)
    /\ fds' = [fds EXCEPT ![LowestFree(fds)] = "client"]
    /\ avail' = sent
    /\ pc' = "recv"
    /\ log' = <<"accept">>
    /\ UNCHANGED <<exit_status, server, files, request_str, request, response,
                   response_str, wire>>

\* while (running) is false: the loop ends.
LoopExit ==
    /\ pc = "loop" /\ ~running
    /\ pc' = "epilogue"
    /\ UNCHANGED <<exit_status, server, fds, files, locals, log>>

\* Mutant: recv() is given the whole buffer.
RecvResults_WholeBuffer(data) ==
    {SOCKET_ERROR}
    \cup {IF Len(data) < buffer_size THEN Len(data) ELSE buffer_size}

\* What recv(client_socket, buffer, buffer_size - 1, 0) may return.
RecvResults(data) ==
    {SOCKET_ERROR}
    \cup {IF Len(data) < buffer_size - 1 THEN Len(data) ELSE buffer_size - 1}

\* Mutant: the test is bytes_received >= 0, so an empty read is parsed.
Recv_ParsesEmpty(bytes_received) ==
    /\ pc = "recv"
    /\ bytes_received \in RecvResults(avail)
    /\ IF bytes_received >= 0
       THEN /\ request_str' = SubSeq(avail, 1, bytes_received)
            /\ pc' = "parse"
       ELSE /\ request_str' = <<>>
            /\ pc' = "close"
    /\ avail' = <<>>
    /\ log' = Append(log, "recv")
    /\ UNCHANGED <<exit_status, server, fds, files, client_socket, request,
                   response, response_str, wire>>

\* recv(), then if (bytes_received > 0) request_str(buffer, bytes_received)
Recv(bytes_received) ==
    /\ pc = "recv"
    /\ bytes_received \in RecvResults(avail)
    /\ IF bytes_received > 0
       THEN /\ request_str' = SubSeq(avail, 1, bytes_received)
            /\ pc' = "parse"
       ELSE /\ request_str' = <<>>
            /\ pc' = "close"
    /\ avail' = IF bytes_received > 0 THEN Substr(avail, bytes_received)
                ELSE <<>>
    /\ log' = Append(log, "recv")
    /\ UNCHANGED <<exit_status, server, fds, files, client_socket, request, response,
                   response_str, wire>>

\* HTTPRequest request; request.parse(request_str); an exception leaves
\* the loop for the catch clause, past closesocket(client_socket).
Parse ==
    /\ pc = "parse"
    /\ LET r == parse(request_str)
       IN  IF r.what # ""
           THEN /\ Unwind
                /\ pc' = "epilogue"
                /\ log' = log \o <<"parse", r.what>>
           ELSE /\ request' = r
                /\ pc' = "route"
                /\ log' = Append(log, "parse")
                /\ UNCHANGED <<client_socket, avail, request_str, response,
                               response_str, wire>>
    /\ UNCHANGED <<exit_status, server, fds, files>>

\* Mutant: a lookup that forgives one trailing slash.
find_TrailingSlash(table, path) ==
    IF path \in DOMAIN table THEN <<path>>
    ELSE IF path # <<>> /\ path[Len(path)] = "/"
            /\ SubSeq(path, 1, Len(path) - 1) \in DOMAIN table
    THEN <<SubSeq(path, 1, Len(path) - 1)>>
    ELSE <<>>

\* routes.find(path): <<key>> for the entry whose key equals path, <<>>
\* for routes.end().
find(table, path) == IF path \in DOMAIN table THEN <<path>> ELSE <<>>

\* Mutant: the lookup is routes[request.path], which registers the path
\* on a miss.
Dispatch_Inserts ==
    /\ pc = "route"
    /\ LET fresh == HTTPResponse(response)
           route == find(routes, request.path)
           found == route # <<>>
           h     == IF found
                    THEN RunHandler(routes[route[1]], files, fresh)
                    ELSE [what |-> "", stop |-> FALSE,
                          res |-> NotFound(fresh)]
           s     == IF h.stop THEN stop(fds, server_socket)
                    ELSE [running |-> running,
                          server_socket |-> server_socket, fds |-> fds]
       IN  \E o \in Orders(h.res.headers) :
           /\ running' = s.running
           /\ server_socket' = s.server_socket
           /\ fds' = s.fds
           /\ IF h.what # ""
              THEN /\ Unwind
                   /\ pc' = "epilogue"
                   /\ log' = log \o <<"handler", h.what>>
              ELSE /\ response' = h.res
                   /\ response_str' = toString(h.res, o)
                   /\ pc' = "send"
                   /\ log' = log \o (IF found THEN <<"handler">> ELSE <<"404">>)
                                 \o (IF h.stop THEN <<"stop">> ELSE <<>>)
                   /\ UNCHANGED <<client_socket, avail, request_str, request,
                                  wire>>
    /\ routes' = IF request.path \in DOMAIN routes THEN routes
               ELSE MapPut(routes, request.path, HelloHandler)
    /\ UNCHANGED <<exit_status, files>>

\* HTTPResponse response; the route lookup; the handler or the 404;
\* response.toString().
Dispatch ==
    /\ pc = "route"
    /\ LET fresh == HTTPResponse(response)
           route == find(routes, request.path)
           found == route # <<>>
           h     == IF found
                    THEN RunHandler(routes[route[1]], files, fresh)
                    ELSE [what |-> "", stop |-> FALSE,
                          res |-> NotFound(fresh)]
           s     == IF h.stop THEN stop(fds, server_socket)
                    ELSE [running |-> running,
                          server_socket |-> server_socket, fds |-> fds]
       IN  \E o \in Orders(h.res.headers) :
           /\ running' = s.running
           /\ server_socket' = s.server_socket
           /\ fds' = s.fds
           /\ IF h.what # ""
              THEN /\ Unwind
                   /\ pc' = "epilogue"
                   /\ log' = log \o <<"handler", h.what>>
              ELSE /\ response' = h.res
                   /\ response_str' = toString(h.res, o)
                   /\ pc' = "send"
                   /\ log' = log \o (IF found THEN <<"handler">> ELSE <<"404">>)
                                 \o (IF h.stop THEN <<"stop">> ELSE <<>>)
                   /\ UNCHANGED <<client_socket, avail, request_str, request,
                                  wire>>
    /\ UNCHANGED <<exit_status, routes, files>>

\* What send(client_socket, data, size, 0) may return: an error, the whole
\* size, or a short count.
SendResults(size) ==
    {SOCKET_ERROR, size} \cup {n \in {1, size \div 2} : n < size}

\* send(client_socket, response_str.c_str(), response_str.size(), 0); the
\* return value is not looked at.
Send(n) ==
    /\ pc = "send"
    /\ n \in SendResults(Len(response_str))
    /\ wire' = IF n > 0 THEN SubSeq(response_str, 1, n) ELSE <<>>
    /\ pc' = "close"
    /\ log' = log \o (IF n = SOCKET_ERROR THEN <<"send", "SOCKET_ERROR">>
                      ELSE <<"send">>)
    /\ UNCHANGED <<exit_status, server, fds, files, client_socket, avail, request_str,
                   request, response, response_str>>

\* closesocket(client_socket); the iteration's locals leave scope.
Close ==
    /\ pc = "close"
    /\ fds' = closesocket(fds, client_socket)
    /\ Unwind
    /\ pc' = "loop"
    /\ log' = Append(log, "close")
    /\ UNCHANGED <<exit_status, server, files>>

\* The end of start(): if (server_socket != INVALID_SOCKET) close it.
Epilogue ==
    /\ pc = "epilogue"
    /\ IF server_socket # INVALID_SOCKET
       THEN /\ fds' = closesocket(fds, server_socket)
            /\ server_socket' = INVALID_SOCKET
       ELSE UNCHANGED <<fds, server_socket>>
    /\ pc' = "idle"
    /\ log' = Append(log, "return")
    /\ UNCHANGED <<exit_status, running, routes, files, locals>>

\* stop() called by the owner of the server while start() is not running.
Stop ==
    /\ pc = "idle"
    /\ LET s == stop(fds, server_socket)
       IN  /\ running' = s.running
           /\ server_socket' = s.server_socket
           /\ fds' = s.fds
    /\ log' = <<"owner_stop">>
    /\ UNCHANGED <<exit_status, pc, routes, files, locals>>

\* ~WebServer(): stop(); the object is gone.
Destroy ==
    /\ pc = "idle"
    /\ LET s == stop(fds, server_socket)
       IN  /\ running' = s.running
           /\ server_socket' = s.server_socket
           /\ fds' = s.fds
    /\ pc' = "destroyed"
    /\ log' = <<"destroy">>
    /\ UNCHANGED <<exit_status, routes, files, locals>>

\* The value main() returns: 1 from its catch clause when an exception
\* left the try block, 0 otherwise.
main(threw) == IF threw THEN 1 ELSE 0

\* main() after server.start() has returned: start() catches every
\* std::exception itself, so the try block ends normally; the server goes
\* out of scope (~WebServer: stop()) and main returns.
MainReturn ==
    /\ pc = "idle"
    /\ log # <<>> /\ log[Len(log)] = "return"
    /\ LET s == stop(fds, server_socket)
       IN  /\ running' = s.running
           /\ server_socket' = s.server_socket
           /\ fds' = s.fds
    /\ exit_status' = main(FALSE)
    /\ pc' = "exited"
    /\ log' = Append(log, "exit")
    /\ UNCHANGED <<routes, files, locals>>

Next ==
    \/ \E h \in {<<PathStop, StopHandler>>, <<PathBoom, ThrowHandler>>,
                 <<PathRoot, JsonHandler>>} :
          addRoute(h[1], h[2])
    \/ \E f \in FileStates : WriteFile(FilePathIndex, f)
    \/ \E step \in SetupSteps : StartSetup(step)
    \/ AcceptFailed
    \/ \E sent \in Payloads : Accept(sent)
    \/ LoopExit
    \/ \E bytes_received \in RecvResults(avail) : Recv(bytes_received)
    \/ Parse
    \/ Dispatch
    \/ \E n \in SendResults(Len(response_str)) : Send(n)
    \/ Close
    \/ Epilogue
    \/ Stop
    \/ Destroy
    \/ MainReturn

Spec == Init /\ [][Next]_vars
(***************************************************************************)
(* Properties.                                                              *)
(***************************************************************************)
Logged(e) == \E i \in DOMAIN log : log[i] = e
Times(e) == Cardinality({i \in DOMAIN log : log[i] = e})
Listening == server_socket \in Fds /\ fds[server_socket] = "listen"
OpenClients == {f \in Fds : fds[f] = "client"}
Serialisations(res) == {toString(res, o) : o \in Orders(res.headers)}
\* The connection being handled received bytes (bytes_received > 0).
Received == request_str # <<>>

\* C1: after a request whose Content-Length is not an integer made parse
\* raise, the server is still running and listening, and is closing that
\* connection or back at the accept.
C1_MalformedLengthKeepsServing ==
    (Logged("parse") /\ Logged("std::invalid_argument"))
        => running /\ Listening /\ pc \in {"close", "loop"}

\* C2: whenever no connection cycle is in progress (the loop is about to
\* accept, or start() is ending or has ended), no accepted connection is
\* still open.
C2_EveryConnectionClosed ==
    pc \in {"loop", "epilogue", "idle", "destroyed", "exited"}
        => OpenClients = {}

\* C3: when the declared Content-Length exceeds the bytes that follow the
\* header block, the parsed body is exactly those bytes.
C3_TruncatedBodyClamped ==
    pc = "route" =>
        LET g    == GetLine(request_str, NewStream)
            hb   == HeaderBlock(request_str, g.st, EmptyMap)
            rest == Remaining(request_str, hb.st)
        IN  (/\ KeyContentLength \in DOMAIN request.headers
             /\ stoi(request.headers[KeyContentLength]).val > Len(rest))
                => request.body = rest

\* C4: at most one client connection is open at any time, and the loop is
\* at its accept only when none is.
C4_OneConnectionAtATime ==
    /\ Cardinality(OpenClients) <= 1
    /\ (pc = "loop" /\ running) => OpenClients = {}

\* C5: a request that was received and whose path is not a key of the
\* route table gets no handler and the fixed 404 response, which is what is
\* handed to send; the server is still running and listening.
C5_UnroutableIs404 ==
    /\ (pc \in {"send", "close"} /\ Received
        /\ request.path \notin DOMAIN routes)
         => /\ ~Logged("handler")
            /\ response.status_code = 404
            /\ response.status_message = StatusNotFound
            /\ response.body = NotFoundHtml
            /\ response_str \in Serialisations(response)
            /\ running /\ Listening
    /\ (pc = "loop" /\ Logged("404")) => running /\ Listening

C5_Witness ==
    /\ pc = "close"
    /\ request.path = PathApiData \o <<"/">>
    /\ PathApiData \in DOMAIN routes
    /\ response.status_code = 404
    /\ wire = response_str

\* C6: a request whose path is a key of the route table has that key's
\* handler run exactly once, on a response in the default state; what is
\* handed to send is the serialisation of the response the handler left.
C6_HandlerGetsFreshResponse ==
    (pc \in {"send", "close"} /\ Received /\ request.path \in DOMAIN routes)
        => /\ Times("handler") = 1
           /\ response =
                RunHandler(routes[request.path], files,
                           [version |-> Http11, status_code |-> 200,
                            status_message |-> StatusOK,
                            headers |-> EmptyMap, body |-> <<>>]).res
           /\ response_str \in Serialisations(response)

C6_Witness ==
    /\ pc = "close"
    /\ request.path = PathIndexHtml
    /\ response.status_code = 200
    /\ response.body = FileV2
    /\ wire = response_str

\* C7: when a response was produced and send() reported no error, the
\* peer has been sent all of its bytes by the time the connection is about
\* to be closed.
C7_WholeResponseWritten ==
    (pc = "close" /\ Logged("send") /\ ~Logged("SOCKET_ERROR"))
        => wire = response_str

\* C8: after a failed accept nothing was handled, the server is running
\* and listening, and the loop is at its accept again.
C8_AcceptFailureNotFatal ==
    log = <<"accept_failed">>
        => /\ pc = "loop" /\ running /\ Listening
           /\ client_socket = INVALID_SOCKET
           /\ request_str = <<>> /\ response_str = <<>> /\ wire = <<>>
           /\ ENABLED AcceptFailed

C8_Witness ==
    log = <<"accept_failed">> /\ OpenClients = {} /\ HasFree(fds)

\* C9: when start() has returned because socket setup failed, the running
\* flag is false, the handle is invalid and no listening socket is open.
C9_SetupFailureLeavesStopped ==
    log = <<"start", "std::runtime_error", "return">>
        => /\ ~running
           /\ server_socket = INVALID_SOCKET
           /\ \A f \in Fds : fds[f] # "listen"

\* C10: once a handler has called stop(), the flag is false and the
\* listening socket closed; the response is still handed to send and the
\* connection closed; the loop does not accept again and start() returns.
C10_StopInsideHandler ==
    Logged("stop")
        => /\ ~running
           /\ server_socket = INVALID_SOCKET
           /\ \A f \in Fds : fds[f] # "listen"
           /\ pc \in {"send", "close", "loop", "epilogue", "idle", "exited"}
           /\ pc = "send" =>
                /\ response_str \in Serialisations(response)
                /\ fds[client_socket] = "client"
           /\ pc = "close" => Logged("send") /\ fds[client_socket] = "client"
           /\ pc \in {"loop", "epilogue", "idle", "exited"} =>
                Logged("send") /\ Logged("close")
           /\ pc = "loop" => ~ENABLED AcceptFailed /\ ENABLED LoopExit
           /\ pc \in {"idle", "exited"} => Logged("return")

C10_Witness ==
    /\ Logged("stop") /\ Logged("send") /\ Logged("close")
    /\ pc = "idle"
    /\ ~running

\* C11: when main() has returned after a start() whose socket setup
\* failed, the exit status is not zero.
C11_StartupFailureExitsNonZero ==
    (pc = "exited" /\ Logged("start") /\ Logged("std::runtime_error"))
        => exit_status # 0

\* A header value that reads as a decimal integer: an optional sign and
\* then digits only.
IsNumeric(v) ==
    LET d == IF v # <<>> /\ v[1] \in {"-", "+"} THEN Tail(v) ELSE v
    IN  d # <<>> /\ \A i \in DOMAIN d : IsDigit(d[i])

\* C12: parse raises nothing on a received request that has no
\* Content-Length header or a numeric one (negative or larger than the
\* remaining input included).
C12_ParseNeverFails ==
    pc = "parse" =>
        LET r == parse(request_str)
        IN  (\/ KeyContentLength \notin DOMAIN r.headers
             \/ IsNumeric(r.headers[KeyContentLength]))
                => r.what = ""

\* C13 as stated: one read per connection, and a request of up to
\* buffer_size bytes is handed whole to the parser.
C13_ReadsWholeBuffer ==
    pc = "parse" =>
        /\ Times("recv") = 1
        /\ Len(request_str) + Len(avail) <= buffer_size => avail = <<>>

\* C13, amended: one read per connection, which takes up to
\* buffer_size - 1 bytes: the parser is handed everything that was
\* available, or its first buffer_size - 1 bytes when there was more.
C13_ReadsBufferLessOne ==
    pc = "parse" =>
        /\ Times("recv") = 1
        /\ Len(request_str) <= buffer_size - 1
        /\ avail = <<>> \/ Len(request_str) = buffer_size - 1

C13_Witness ==
    /\ pc = "parse"
    /\ Len(request_str) = buffer_size - 1
    /\ Len(avail) = 1

\* C14: a read that delivers no bytes leads straight to the close: nothing
\* is parsed, routed, handled or sent, and the next step closes the
\* connection and returns to the accept.
C14_EmptyReadSkipsProcessing ==
    [][/\ (pc = "recv" /\ request_str' = <<>>)
            => /\ pc' = "close"
               /\ request' = NoRequest
               /\ response' = NoResponse
               /\ response_str' = <<>>
               /\ wire' = <<>>
               /\ fds' = fds
               /\ log' = <<"accept", "recv">>
       /\ (pc = "close" /\ ~Received)
            => /\ fds[client_socket] = "client"
               /\ fds' = [fds EXCEPT ![client_socket] = "free"]
               /\ pc' = "loop"
               /\ log' = <<"accept", "recv", "close">>]_vars

C14_Witness ==
    pc = "loop" /\ log = <<"accept", "recv", "close">>

\* Index of the first byte after the first blank line (LF LF or
\* LF CR LF) of s at or after i; 0 when s has none.
RECURSIVE AfterBlankLine(_, _)
AfterBlankLine(s, i) ==
    IF i + 1 > Len(s) THEN 0
    ELSE IF s[i] = "\n" /\ s[i + 1] = "\n" THEN i + 2
    ELSE IF s[i] = "\n" /\ s[i + 1] = "\r" /\ i + 2 <= Len(s)
            /\ s[i + 2] = "\n" THEN i + 3
    ELSE AfterBlankLine(s, i + 1)

\* C15: with a Content-Length header of value N and at least N bytes after
\* the blank line, the body is the first N of them; without a header named
\* exactly Content-Length the body is empty.
C15_BodyIsDeclaredLength ==
    pc = "route" =>
        LET from  == AfterBlankLine(request_str, 1)
            after == IF from = 0 THEN <<>>
                     ELSE SubSeq(request_str, from, Len(request_str))
        IN  /\ (/\ KeyContentLength \in DOMAIN request.headers
                /\ from # 0
                /\ stoi(request.headers[KeyContentLength]).val <= Len(after))
                  => request.body =
                       SubSeq(after, 1,
                              stoi(request.headers[KeyContentLength]).val)
            /\ KeyContentLength \notin DOMAIN request.headers
                  => request.body = <<>>

C15_Witness ==
    /\ pc = "route"
    /\ KeyContentLength \in DOMAIN request.headers
    /\ request.headers[KeyContentLength] = <<"5">>
    /\ Len(request_str) > AfterBlankLine(request_str, 1) + 5
    /\ request.body = <<"h", "e", "l", "l", "o">>

C15_WitnessNoHeader ==
    /\ pc = "route"
    /\ DOMAIN request.headers
         = {<<"c","o","n","t","e","n","t","-","l","e","n","g","t","h">>}
    /\ Len(request_str) >= AfterBlankLine(request_str, 1)
    /\ AfterBlankLine(request_str, 1) # 0
    /\ request.body = <<>>

\* The suffix table of the static-file route, on sample file names.
SuffixTable ==
    {<<ExtHtml, TextHtml>>, <<ExtHtm, TextHtml>>, <<ExtCss, TextCss>>,
     <<ExtJs, ApplicationJavascript>>, <<ExtJson, ApplicationJson>>,
     <<ExtPng, ImagePng>>, <<ExtJpg, ImageJpeg>>, <<ExtJpeg, ImageJpeg>>,
     <<ExtGif, ImageGif>>}

\* The suffix chain gives the table's type for a name that ends with a
\* suffix and text/plain for any other name.
SuffixChainFollowsTable ==
    /\ \A e \in SuffixTable :
          /\ ContentTypeOf(<<"a">> \o e[1]) = e[2]
          /\ ContentTypeOf(e[1]) = e[2]
          /\ ContentTypeOf(e[1] \o <<"a">>) = TextPlain
    /\ ContentTypeOf(<<"a">>) = TextPlain

\* C16: each answer of a static-file route reflects the file as it is when
\* the request is handled: 404 with the fixed body when it cannot be
\* opened, otherwise 200 with its current bytes and the Content-Type of the
\* suffix table.
C16_StaticRouteRereadsFile ==
    [][/\ SuffixChainFollowsTable
       /\ (/\ pc = "route"
           /\ request.path = PathIndexHtml
           /\ pc' = "send")
            => IF files[FilePathIndex].is_open
               THEN /\ response'.status_code = 200
                    /\ response'.status_message = StatusOK
                    /\ response'.body = files[FilePathIndex].bytes
                    /\ response'.headers[KeyContentType] = TextHtml
               ELSE /\ response'.status_code = 404
                    /\ response'.status_message = StatusNotFound
                    /\ response'.body = NotFoundHtml]_vars

C16_Witness ==
    /\ pc = "send"
    /\ request.path = PathIndexHtml
    /\ files[FilePathIndex] = [is_open |-> TRUE, bytes |-> FileV2]
    /\ response.status_code = 200
    /\ response.body = FileV2

C16_WitnessDeleted ==
    /\ pc = "send"
    /\ request.path = PathIndexHtml
    /\ files[FilePathIndex] = NoFile
    /\ response.status_code = 404

\* v is the decimal numeral of n, without sign or leading zeros.
IsDecimalOf(v, n) ==
    /\ v # <<>>
    /\ \A i \in DOMAIN v : IsDigit(v[i])
    /\ (Len(v) > 1 => v[1] # "0")
    /\ stoi(v).what = ""
    /\ stoi(v).val = n

\* Contents and content types for sequences of setContent calls.
SampleContents == {<<>>, BodyShort, BodyLong, NotFoundHtml, FileV1}
SampleTypes == {TextHtml, TextPlain, ApplicationJson}

\* One call, two calls, and a second call with the type omitted, on a
\* fresh response.
SetContentCallsAgree ==
    /\ \A c1 \in SampleContents, c2 \in SampleContents,
          t1 \in SampleTypes, t2 \in SampleTypes :
          LET once  == setContent(HTTPResponse(NoResponse), c1, t1)
              twice == setContent(once, c2, t2)
              dflt  == setContent(once, c2, DefaultContentType)
          IN  /\ once.body = c1
              /\ IsDecimalOf(once.headers[KeyContentLength], Len(c1))
              /\ once.headers[KeyContentType] = t1
              /\ twice.body = c2
              /\ IsDecimalOf(twice.headers[KeyContentLength], Len(c2))
              /\ twice.headers[KeyContentType] = t2
              /\ dflt.headers[KeyContentType]
                   = <<"t","e","x","t","/","h","t","m","l">>

\* C17: after any setContent calls Content-Length is the length of the
\* current body and Content-Type is the last call's type (text/html when
\* omitted); every 404 and static-file response sent carries the length of
\* its body.
C17_ContentLengthMatchesBody ==
    /\ SetContentCallsAgree
    /\ (/\ pc \in {"send", "close"}
        /\ \/ Logged("404")
           \/ Logged("handler") /\ request.path = PathIndexHtml)
         => /\ KeyContentLength \in DOMAIN response.headers
            /\ IsDecimalOf(response.headers[KeyContentLength],
                           Len(response.body))
            /\ KeyContentType \in DOMAIN response.headers

C17_Witness ==
    /\ pc = "close"
    /\ Logged("send")
    /\ \/ Logged("404")
       \/ /\ Logged("handler")
          /\ request.path = PathIndexHtml
          /\ response.status_code = 200
    /\ response.body # <<>>
    /\ IsDecimalOf(response.headers[KeyContentLength], Len(response.body))

\* C18: handling a connection never changes the route table, whether the
\* requested path is registered or not.
C18_ServingKeepsRoutes ==
    [][(pc \in {"loop", "recv", "parse", "route", "send", "close",
               "epilogue"})
         => routes' = routes]_vars

C18_Witness ==
    /\ pc = "loop"
    /\ Logged("404")
    /\ Logged("close")
    /\ PathNope \notin DOMAIN routes

\* C19: whenever start() has returned the running flag is false and the
\* listening socket handle is invalid, and the flag is true only while the
\* listening socket is open.
C19_RunningMatchesSocket ==
    /\ (pc = "idle" /\ Logged("return"))
         => ~running /\ server_socket = INVALID_SOCKET
    /\ running => Listening

\* C20: every close of the listening socket handle is applied to a socket
\* that start() created and that is still open; stop() or teardown of a
\* server that was never started closes nothing.
C20_ClosesOnlyOwnListeningSocket ==
    [][(server_socket # INVALID_SOCKET /\ server_socket' = INVALID_SOCKET)
         => Listening]_vars

=============================================================================
